---- MODULE Spec2Model ----
(***************************************************************************)
(* A model of cascade_at's model-assembly engine: Alchemy (grid_alchemy.py) *)
(* with its construct_two_level_model algorithm, and get_midpoint_dict      *)
(* (inputs/utilities/manipulate.py).                                        *)
(*                                                                          *)
(* Python values are represented as follows.                                *)
(*   list / 1-d array   a sequence (1-based; a Python index i is i + 1)     *)
(*   dict               a function whose DOMAIN is the key set              *)
(*   None / optional    a record [is_none, val]                             *)
(*   location None      the key Shared (random effects shared by children)  *)
(*   exception          frame.pc = "raised" with frame.error naming it      *)
(***************************************************************************)
EXTENDS Integers, Sequences, FiniteSets, TLC

VARIABLES
    alchemy,    \* the Alchemy object: settings, age_time_grid, single_age_time_grid, model
    args,       \* args[c]: the arguments of invocation c of construct_two_level_model
    frame,      \* frame[c]: the locals of invocation c and its position (pc)
    midpoint    \* the locals of one run of get_midpoint_dict and its position

vars == <<alchemy, args, frame, midpoint>>

(***************************************************************************)
(* Bounds of the model.                                                     *)
(***************************************************************************)
\* the longest list of random-effect smoothings in settings.random_effect
MaxRandomEffects == 2
\* the most observed intervals / grid cells handed to get_midpoint_dict
MaxObserved == 2
\* the most points of a default-grid override of the settings
MaxGridPoints == 3

(***************************************************************************)
(* Python helpers.                                                          *)
(***************************************************************************)
None == [is_none |-> TRUE, val |-> <<>>]
Some(v) == [is_none |-> FALSE, val |-> v]

Range(s) == {s[i] : i \in DOMAIN s}

\* d[k] = v on a dict
Put(d, k, v) == [x \in (DOMAIN d) \cup {k} |-> IF x = k THEN v ELSE d[x]]

\* s[:-1]
AllButLast(s) == IF Len(s) = 0 THEN <<>> ELSE SubSeq(s, 1, Len(s) - 1)

\* all sequences over S of length at most n
SeqsUpTo(S, n) == UNION {[1..k -> S] : k \in 0..n}

RECURSIVE InsertSorted(_, _)
InsertSorted(s, x) ==
    IF s = <<>> THEN <<x>>
    ELSE IF x < Head(s) THEN <<x>> \o s
    ELSE <<Head(s)>> \o InsertSorted(Tail(s), x)

\* np.sort: ascending order, duplicates kept
RECURSIVE np_sort(_)
np_sort(s) == IF s = <<>> THEN <<>> ELSE InsertSorted(np_sort(Tail(s)), Head(s))

\* np.linspace(lo, hi, n) for the evenly divisible cases the code uses
np_linspace(lo, hi, n) == [i \in 1..n |-> lo + ((i - 1) * (hi - lo)) \div (n - 1)]

(***************************************************************************)
(* Alchemy.__init__ and the default grids.                                  *)
(***************************************************************************)
\* number of points of the built-in default age grid: np.linspace(0, 100, 21)
NumDefaultAges == 21
\* number of points of the built-in default time grid: np.linspace(1990, 2015, 6)
NumDefaultTimes == 6

construct_age_time_grid(settings) ==
    [age  |-> IF settings.model.default_age_grid.is_none
              THEN np_linspace(0, 100, NumDefaultAges)
              ELSE np_sort(settings.model.default_age_grid.val),
     time |-> IF settings.model.default_time_grid.is_none
              THEN np_linspace(1990, 2015, NumDefaultTimes)
              ELSE np_sort(settings.model.default_time_grid.val)]

\* a slip: the middle time is taken at index (n - 1) // 2, the lower middle
SingleAtLowerMiddle(age_time_grid) ==
    [age  |-> SubSeq(age_time_grid.age, 1, 1),
     time |-> <<age_time_grid.time[((Len(age_time_grid.time) - 1) \div 2) + 1]>>]

construct_single_age_time_grid(age_time_grid) ==
    [age  |-> SubSeq(age_time_grid.age, 1, 1),
     time |-> <<age_time_grid.time[(Len(age_time_grid.time) \div 2) + 1]>>]

\* the object Alchemy(settings) leaves behind
Alchemy(settings) ==
    LET grid == construct_age_time_grid(settings) IN
    [settings |-> settings,
     age_time_grid |-> grid,
     single_age_time_grid |-> construct_single_age_time_grid(grid),
     model |-> None]

(***************************************************************************)
(* Grids.  A grid is [kind, ages, times, value, dage, dtime]; value, dage    *)
(* and dtime are dicts keyed by <<age, time>>.                               *)
(***************************************************************************)
Nodes(ages, times) == Range(ages) \X Range(times)

\* smooth_grid_from_smoothing_form: the grid of a smoothing form, on the single
\* point when the form does not depend on age and time, else on the default grid
smooth_grid_from_smoothing_form(default_age_time, single_age_time, smooth) ==
    LET ages  == IF smooth.single THEN single_age_time.age ELSE default_age_time.age
        times == IF smooth.single THEN single_age_time.time ELSE default_age_time.time
    IN  [kind  |-> "smooth",
         ages  |-> ages,
         times |-> times,
         value |-> [n \in Nodes(ages, times) |-> smooth.value_prior],
         dage  |-> [n \in Nodes(AllButLast(ages), times) |-> smooth.dage_prior],
         dtime |-> [n \in Nodes(ages, AllButLast(times)) |-> smooth.dtime_prior]]

get_smoothing_grid(self, rate) ==
    smooth_grid_from_smoothing_form(self.age_time_grid, self.single_age_time_grid, rate)

\* prior.mle(draws): same density, parameters fitted to the sample slice
mle(prior, slice) == [prior EXCEPT !.mean = slice]

\* draws[age_idx, time_idx, :], summarised by the statistic the fit keeps
Slice(draws, age_idx, time_idx) == draws.data[<<age_idx, time_idx>>]

\* the last Python index at which the array s holds v
LastIndex(s, v) == (CHOOSE k \in DOMAIN s : s[k] = v /\ \A m \in DOMAIN s : s[m] = v => m <= k) - 1

\* a slip: the slice is taken at time index 0 whatever the time of the node
EstimateLoopAtFirstTime(grid_priors, draws, ages, times) ==
    [key \in DOMAIN grid_priors |->
        IF key[1] \in Range(ages) /\ key[2] \in Range(times)
        THEN mle(grid_priors[key], Slice(draws, LastIndex(ages, key[1]), 0))
        ELSE grid_priors[key]]

\* the loop of estimate_grid_parameters over it.product(range(len(ages)),
\* range(len(times))), in closed form: the node at (ages[age_idx], times[time_idx])
\* is refitted to the slice of that index pair; were a coordinate to repeat on an
\* axis, the node keeps the fit of the last pair that reaches it
EstimateLoop(grid_priors, draws, ages, times) ==
    [key \in DOMAIN grid_priors |->
        IF key[1] \in Range(ages) /\ key[2] \in Range(times)
        THEN mle(grid_priors[key],
                 Slice(draws, LastIndex(ages, key[1]), LastIndex(times, key[2])))
        ELSE grid_priors[key]]

\* a slip: the draws need only reach over the times of the grid, not match them
DrawsFitNoTimeCheck(draws, ages, times) ==
    /\ draws.is_ndarray
    /\ Len(draws.shape) = 3
    /\ draws.shape[1] = Len(ages)
    /\ draws.shape[2] >= Len(times)

\* the assertions of estimate_grid_parameters
DrawsFit(draws, ages, times) ==
    /\ draws.is_ndarray
    /\ Len(draws.shape) = 3
    /\ draws.shape[1] = Len(ages)
    /\ draws.shape[2] = Len(times)

\* estimate_grid_parameters: [ok, priors]; priors is grid_priors after the call
estimate_grid_parameters(grid_priors, draws, ages, times) ==
    IF DrawsFit(draws, ages, times)
    THEN [ok |-> TRUE, priors |-> EstimateLoop(grid_priors, draws, ages, times)]
    ELSE [ok |-> FALSE, priors |-> grid_priors]

(***************************************************************************)
(* construct_two_level_model, step by step.  A frame holds the locals of    *)
(* one invocation: pc is its position, model the Model under construction,  *)
(* rate_grid the rate grid being built when step 1 stopped.                  *)
(***************************************************************************)
\* the key of a random effect that is not tied to one child (location = None)
Shared == 0

\* an exception: its type and message, and the rate or location it is about
Error(type, about) == [type |-> type, about |-> about]
NoError == Error("none", "")

\* defaultdict(list): the keys in insertion order, and the list of each key
EmptyDefaultDict == [keys |-> <<>>, lists |-> <<>>]

IdleFrame ==
    [pc |-> "idle", model |-> None, rate_grid |-> None,
     random_effect_by_rate |-> EmptyDefaultDict,
     error |-> NoError, warned |-> FALSE, omega_read |-> FALSE]

ReadyFrame == [IdleFrame EXCEPT !.pc = "begin"]

Raise(fr, error) == [fr EXCEPT !.pc = "raised", !.error = error]

\* list(location_dag.dag.successors(parent_location_id))
Successors(location_dag, parent_location_id) == location_dag[parent_location_id]

\* Model(nonzero_rates, parent_location, child_location, covariates, weights)
Model(nonzero_rates, parent_location, child_location, covariates, weights) ==
    [nonzero_rates |-> nonzero_rates,
     parent_location |-> parent_location,
     child_location |-> child_location,
     covariates |-> covariates,
     weights |-> weights,
     rate |-> <<>>,
     random_effect |-> <<>>,
     mulcov |-> <<>>]

\* children = ...; model = Model(...)
Begin(self, arg, fr) ==
    LET children == Successors(arg.location_dag, arg.parent_location_id) IN
    [fr EXCEPT !.pc = "rates",
               !.model = Some(Model(self.settings.rate, arg.parent_location_id, children,
                                    arg.covariate_specs.covariate_list, arg.weights))]

\* one slot of the prior update: [ok, priors]
UpdateSlot(present, grid_priors, draws, ages, times) ==
    IF present
    THEN estimate_grid_parameters(grid_priors, draws, ages, times)
    ELSE [ok |-> TRUE, priors |-> grid_priors]

\* assert (prior['ages'] == rate_grid.ages)
AgesAgree(prior, rate_grid) == prior.ages = rate_grid.ages

\* a slip: only the number of times is compared
TimesAgreeInLength(prior, rate_grid) == Len(prior.times) = Len(rate_grid.times)

\* assert (prior['times'] == rate_grid.times)
TimesAgree(prior, rate_grid) == prior.times = rate_grid.times

\* the body of the loop over settings.rate: the frame after this rate
RateBody(self, update_prior, fr, smooth) ==
    LET rate_grid == get_smoothing_grid(self, smooth)
        installed(g) ==
            [fr EXCEPT !.rate_grid = Some(g),
                       !.model = Some([fr.model.val EXCEPT
                                          !.rate = Put(fr.model.val.rate, smooth.rate, g)])]
    IN  IF update_prior.is_none \/ smooth.rate \notin DOMAIN update_prior.val
        THEN installed(rate_grid)
        ELSE LET prior == update_prior.val[smooth.rate] IN
             IF ~AgesAgree(prior, rate_grid)
             THEN Raise([fr EXCEPT !.rate_grid = Some(rate_grid)], Error("AssertionError: prior ages", smooth.rate))
             ELSE IF ~TimesAgree(prior, rate_grid)
             THEN Raise([fr EXCEPT !.rate_grid = Some(rate_grid)], Error("AssertionError: prior times", smooth.rate))
             ELSE
             LET v  == UpdateSlot(prior.value.present, rate_grid.value, prior.value.draws,
                                  rate_grid.ages, rate_grid.times)
                 g1 == [rate_grid EXCEPT !.value = v.priors]
                 a  == UpdateSlot(prior.dage.present, g1.dage, prior.dage.draws,
                                  AllButLast(g1.ages), g1.times)
                 g2 == [g1 EXCEPT !.dage = a.priors]
                 t  == UpdateSlot(prior.dtime.present, g2.dtime, prior.dtime.draws,
                                  g2.ages, AllButLast(g2.times))
                 g3 == [g2 EXCEPT !.dtime = t.priors]
             IN  IF ~v.ok
                 THEN Raise([fr EXCEPT !.rate_grid = Some(g1)], Error("AssertionError: value draws", smooth.rate))
                 ELSE IF ~a.ok
                 THEN Raise([fr EXCEPT !.rate_grid = Some(g2)], Error("AssertionError: dage draws", smooth.rate))
                 ELSE IF ~t.ok
                 THEN Raise([fr EXCEPT !.rate_grid = Some(g3)], Error("AssertionError: dtime draws", smooth.rate))
                 ELSE installed(g3)

\* for smooth in self.settings.rate, from the k-th on
RECURSIVE RateLoop(_, _, _, _)
RateLoop(self, update_prior, fr, k) ==
    IF fr.pc = "raised" \/ k > Len(self.settings.rate) THEN fr
    ELSE RateLoop(self, update_prior,
                  RateBody(self, update_prior, fr, self.settings.rate[k]), k + 1)

\* step 1: the rate grids
Rates(self, arg, fr) ==
    LET out == RateLoop(self, arg.update_prior, fr, 1) IN
    IF out.pc = "raised" THEN out ELSE [out EXCEPT !.pc = "covariates"]

\* for mulcov in covariate_specs.covariate_multipliers, from the k-th on
RECURSIVE MulcovLoop(_, _, _, _)
MulcovLoop(self, multipliers, model, k) ==
    IF k > Len(multipliers) THEN model
    ELSE LET mulcov == multipliers[k]
             grid == smooth_grid_from_smoothing_form(self.age_time_grid,
                         self.single_age_time_grid, mulcov.grid_spec)
         IN  MulcovLoop(self, multipliers,
                 [model EXCEPT !.mulcov = Put(model.mulcov, <<mulcov.group, mulcov.key>>, grid)],
                 k + 1)

\* step 2: the covariate grids
Covariates(self, arg, fr) ==
    [fr EXCEPT !.pc = "random_effects",
               !.model = Some(MulcovLoop(self, arg.covariate_specs.covariate_multipliers,
                                         fr.model.val, 1))]

\* random_effect_by_rate[rate].append(location)
AppendTo(dd, key, x) ==
    IF key \in DOMAIN dd.lists
    THEN [dd EXCEPT !.lists[key] = Append(dd.lists[key], x)]
    ELSE [keys |-> Append(dd.keys, key), lists |-> Put(dd.lists, key, <<x>>)]

\* a slip: a declared location is used as the key whether or not it is a child
RandomEffectLocationAsDeclared(model, smooth) ==
    IF smooth.has_location THEN smooth.location ELSE Shared

\* the location key of a random-effect smoothing: its own location when that is
\* set and a child of the parent, else None
RandomEffectLocation(model, smooth) ==
    IF smooth.has_location /\ smooth.location \in Range(model.child_location)
    THEN smooth.location
    ELSE Shared

\* for smooth in self.settings.random_effect, from the k-th on
RECURSIVE RandomEffectLoop(_, _, _)
RandomEffectLoop(self, fr, k) ==
    IF k > Len(self.settings.random_effect) THEN fr
    ELSE LET smooth == self.settings.random_effect[k]
             re_grid == smooth_grid_from_smoothing_form(self.age_time_grid,
                            self.single_age_time_grid, smooth)
             location == RandomEffectLocation(fr.model.val, smooth)
         IN  RandomEffectLoop(self,
                 [fr EXCEPT !.model = Some([fr.model.val EXCEPT !.random_effect =
                                Put(fr.model.val.random_effect, <<smooth.rate, location>>, re_grid)]),
                            !.random_effect_by_rate =
                                AppendTo(fr.random_effect_by_rate, smooth.rate, location)],
                 k + 1)

\* the test of the coverage loop: these locations are acceptable for a rate
CoverageOk(locations, child_location) ==
    locations = <<Shared>> \/ Range(locations) = Range(child_location)

\* for rate_to_check, locations in random_effect_by_rate.items(), from the k-th on
RECURSIVE CoverageLoop(_, _)
CoverageLoop(fr, k) ==
    IF k > Len(fr.random_effect_by_rate.keys) THEN fr
    ELSE LET rate_to_check == fr.random_effect_by_rate.keys[k]
             locations == fr.random_effect_by_rate.lists[rate_to_check]
         IN  IF CoverageOk(locations, fr.model.val.child_location)
             THEN CoverageLoop(fr, k + 1)
             ELSE Raise(fr, Error("RuntimeError: random effect coverage", rate_to_check))

\* step 3: the random-effect grids and their coverage check
RandomEffects(self, arg, fr) ==
    IF self.settings.random_effect = <<>>
    THEN [fr EXCEPT !.pc = "omega"]
    ELSE LET out == CoverageLoop(RandomEffectLoop(self, fr, 1), 1) IN
         IF out.pc = "raised" THEN out ELSE [out EXCEPT !.pc = "omega"]

\* rectangular_data_to_var: the function of age and time the rows define
rectangular_data_to_var(gridded_data) == [fn |-> "data", rows |-> gridded_data]

\* child_effect: log(child_rate(age, time) / omega(age, time))
child_effect(child_rate, omega) == [fn |-> "log_ratio", child |-> child_rate, parent |-> omega]

\* the value of the rows at (age, time): the value of the row covering the point
\* (each location has one row, covering every age and time)
RowValue(rows, age, time) == (CHOOSE r \in rows : TRUE).meas_value

\* rate_var(age, time)
CallVar(rate_var, age, time) ==
    IF rate_var.fn = "data"
    THEN [fn |-> "rate", num |-> RowValue(rate_var.rows, age, time), den |-> 1]
    ELSE [fn |-> "log",
          num |-> RowValue(rate_var.child.rows, age, time),
          den |-> RowValue(rate_var.parent.rows, age, time)]

\* constraint_from_rectangular_data: fixed values on the default grid, no dage, no dtime
constraint_from_rectangular_data(rate_var, default_age_time) ==
    [kind  |-> "constraint",
     ages  |-> default_age_time.age,
     times |-> default_age_time.time,
     value |-> [n \in Nodes(default_age_time.age, default_age_time.time) |->
                   CallVar(rate_var, n[1], n[2])],
     dage  |-> <<>>,
     dtime |-> <<>>]

\* omega_df.loc[omega_df.location_id == location]
RowsOf(omega_df, location) == {r \in omega_df : r.location_id = location}

\* a slip: every child's effect is evaluated after the loop, when the closure's
\* child_rate is bound to the rows of the last child
RECURSIVE ChildOmegaLoopLateBound(_, _, _, _, _)
ChildOmegaLoopLateBound(self, omega_df, omega, fr, k) ==
    IF k > Len(fr.model.val.child_location) THEN fr
    ELSE LET children == fr.model.val.child_location
             child == children[k]
             child_rate == rectangular_data_to_var(RowsOf(omega_df, children[Len(children)]))
             grid == constraint_from_rectangular_data(child_effect(child_rate, omega),
                                                      self.age_time_grid)
         IN  IF RowsOf(omega_df, child) = {}
             THEN Raise(fr, Error("AssertionError: child omega", ""))
             ELSE ChildOmegaLoopLateBound(self, omega_df, omega,
                     [fr EXCEPT !.model = Some([fr.model.val EXCEPT !.random_effect =
                                    Put(fr.model.val.random_effect, <<"omega", child>>, grid)])],
                     k + 1)

\* for child in children, from the k-th on: the frame after the loop, raised when
\* the assertion on a child's rows fails
RECURSIVE ChildOmegaLoop(_, _, _, _, _)
ChildOmegaLoop(self, omega_df, omega, fr, k) ==
    IF k > Len(fr.model.val.child_location) THEN fr
    ELSE LET child == fr.model.val.child_location[k]
             child_omega == RowsOf(omega_df, child)
             child_rate == rectangular_data_to_var(child_omega)
             grid == constraint_from_rectangular_data(child_effect(child_rate, omega),
                                                      self.age_time_grid)
         IN  IF child_omega = {}
             THEN Raise(fr, Error("AssertionError: child omega", ""))
             ELSE ChildOmegaLoop(self, omega_df, omega,
                     [fr EXCEPT !.model = Some([fr.model.val EXCEPT !.random_effect =
                                    Put(fr.model.val.random_effect, <<"omega", child>>, grid)])],
                     k + 1)

\* the parent's rows are there: not parent_omega.empty
HasParentOmega(omega_df, parent_location_id) == RowsOf(omega_df, parent_location_id) # {}

\* a slip: no child is ever found to lack rows
ChildrenWithoutOmegaIgnored(children, omega_df) == {}

\* set(children) - set(locations)
ChildrenWithoutOmega(children, omega_df) ==
    Range(children) \ {r.location_id : r \in omega_df}

\* a slip: model.rate.setdefault("omega", grid), which keeps an estimated grid
InstallOmegaIfAbsent(rate, grid) == IF "omega" \in DOMAIN rate THEN rate ELSE Put(rate, "omega", grid)

\* model.rate["omega"] = the constraint grid
InstallOmega(rate, grid) == Put(rate, "omega", grid)

\* the omega constraint: what step 4 does when the flag is set
OmegaConstraint(self, arg, fr) ==
    LET read == [fr EXCEPT !.omega_read = TRUE] IN
    IF arg.omega_df.is_none
    THEN Raise(read, Error("RuntimeError: need an omega data frame", ""))
    ELSE IF ~HasParentOmega(arg.omega_df.val, arg.parent_location_id)
    THEN Raise(read, Error("RuntimeError: no omega values for location", ""))
    ELSE
    LET omega_df == arg.omega_df.val
        omega == rectangular_data_to_var(RowsOf(omega_df, arg.parent_location_id))
        constrained ==
            [read EXCEPT !.model = Some([fr.model.val EXCEPT !.rate =
                InstallOmega(fr.model.val.rate,
                             constraint_from_rectangular_data(omega, self.age_time_grid))])]
    IN  IF ChildrenWithoutOmega(constrained.model.val.child_location, omega_df) # {}
        THEN [constrained EXCEPT !.pc = "returned", !.warned = TRUE]
        ELSE LET out == ChildOmegaLoop(self, omega_df, omega, constrained, 1) IN
             IF out.pc = "raised" THEN out ELSE [out EXCEPT !.pc = "returned"]

\* a slip: the constraint is applied whatever the flag says
OmegaRegardlessOfFlag(self, arg, fr) == OmegaConstraint(self, arg, fr)

\* step 4: the omega constraint when settings.model.constrain_omega, and the return
Omega(self, arg, fr) ==
    IF self.settings.model.constrain_omega
    THEN OmegaConstraint(self, arg, fr)
    ELSE [fr EXCEPT !.pc = "returned"]

\* the step of construct_two_level_model at position fr.pc
Step(self, arg, fr) ==
    CASE fr.pc = "begin" -> Begin(self, arg, fr)
      [] fr.pc = "rates" -> Rates(self, arg, fr)
      [] fr.pc = "covariates" -> Covariates(self, arg, fr)
      [] fr.pc = "random_effects" -> RandomEffects(self, arg, fr)
      [] fr.pc = "omega" -> Omega(self, arg, fr)
      [] OTHER -> fr

Finished(fr) == fr.pc \in {"returned", "raised"}

\* construct_two_level_model run from the frame fr to its end
RECURSIVE RunFrom(_, _, _)
RunFrom(self, arg, fr) ==
    IF Finished(fr) \/ fr.pc = "idle" THEN fr ELSE RunFrom(self, arg, Step(self, arg, fr))

\* construct_two_level_model(location_dag, parent_location_id, covariate_specs,
\* weights, omega_df, update_prior) as one call: the final frame
construct_two_level_model(self, arg) == RunFrom(self, arg, ReadyFrame)

\* a slip: step 1 takes ages[:-1] by popping the last point off the default grid
SelfGridConsumed(self, fr) ==
    IF fr.pc = "covariates" /\ Len(self.age_time_grid.age) > 1
    THEN [self EXCEPT !.age_time_grid.age = AllButLast(self.age_time_grid.age)]
    ELSE self

\* a slip: the returned Model is kept in self.model
SelfKeepsModel(self, fr) ==
    IF fr.pc = "returned" THEN [self EXCEPT !.model = fr.model] ELSE self

\* the fields of self after a step of construct_two_level_model: the method
\* assigns no attribute of self and mutates none of the objects self holds
SelfAfter(self, fr) == self

(***************************************************************************)
(* get_midpoint_dict.  observed is a sequence of rows <<lower, upper>>;     *)
(* grid_array is indexed [row][column] with rows lower, midpoint, upper, as *)
(* the code indexes it.  Numbers are in tenths.                             *)
(***************************************************************************)
IdleMidpoint ==
    [pc |-> "idle", observed |-> <<>>, grid_array |-> <<<<>>, <<>>, <<>>>>,
     i |-> 0, dictionary |-> <<>>]

\* grid_array.shape[1]
Shape1(grid_array) == Len(grid_array[1])

\* observed[grab], as the list of the rows selected for column i, in order
RECURSIVE Bucket(_, _, _, _)
Bucket(observed, grid_array, i, k) ==
    IF k > Len(observed) THEN <<>>
    ELSE LET grab == /\ observed[k][2] > grid_array[1][i + 1]
                     /\ observed[k][1] < grid_array[3][i + 1]
         IN  (IF grab THEN <<observed[k]>> ELSE <<>>) \o Bucket(observed, grid_array, i, k + 1)

\* for j in bucket, from the k-th on: [raised, dictionary]
RECURSIVE BucketLoop(_, _, _, _)
BucketLoop(bucket, midvalue, dictionary, k) ==
    IF k > Len(bucket) THEN [raised |-> FALSE, dictionary |-> dictionary]
    ELSE IF bucket[k] \in DOMAIN dictionary
         THEN [raised |-> TRUE, dictionary |-> dictionary]
         ELSE BucketLoop(bucket, midvalue, Put(dictionary, bucket[k], midvalue), k + 1)

\* one pass of the loop over the columns of grid_array, or the return after the last
MidpointStep(m) ==
    IF m.i >= Shape1(m.grid_array)
    THEN [m EXCEPT !.pc = "returned"]
    ELSE LET bucket == Bucket(m.observed, m.grid_array, m.i, 1)
             out == BucketLoop(bucket, m.grid_array[2][m.i + 1], m.dictionary, 1)
         IN  [m EXCEPT !.pc = IF out.raised THEN "raised" ELSE "loop",
                       !.i = IF out.raised THEN m.i ELSE m.i + 1,
                       !.dictionary = out.dictionary]

(***************************************************************************)
(* The inputs the model draws from.                                         *)
(***************************************************************************)
Calls == {1, 2}

\* the location hierarchy: 1 is the parent of 2 and 3, which are leaves
LocationDag == (1 :> <<2, 3>>) @@ (2 :> <<>>) @@ (3 :> <<>>)
Locations == DOMAIN LocationDag

\* a smoothing form of the settings
SmoothingForm(rate, has_location, location, single) ==
    [rate |-> rate, has_location |-> has_location, location |-> location, single |-> single,
     value_prior |-> [density |-> "gaussian", mean |-> 0],
     dage_prior  |-> [density |-> "laplace", mean |-> 0],
     dtime_prior |-> [density |-> "students", mean |-> 0]]

\* iota is smoothed over the default grid, omega does not depend on age and time
RateForm(rate) == SmoothingForm(rate, FALSE, Shared, rate = "omega")

RateLists == {<<RateForm("iota")>>, <<RateForm("iota"), RateForm("omega")>>}

RandomEffectForms ==
    {SmoothingForm(rate, FALSE, Shared, TRUE) : rate \in {"iota", "omega"}}
    \cup {SmoothingForm(rate, TRUE, l, TRUE) : rate \in {"iota", "omega"}, l \in {2, 3}}

\* the default-grid overrides: none, or unsorted points the constructor sorts
BuiltInGrid == [default_age_grid |-> None, default_time_grid |-> None]
SmallGrid == [default_age_grid |-> Some(<<50, 0, 100>>), default_time_grid |-> Some(<<2010, 1990>>)]

Settings(rate, random_effect, grid, constrain_omega) ==
    [rate |-> rate,
     random_effect |-> random_effect,
     model |-> [default_age_grid |-> grid.default_age_grid,
                default_time_grid |-> grid.default_time_grid,
                constrain_omega |-> constrain_omega]]

CovariateSpecs ==
    [covariate_list |-> <<"sex">>,
     covariate_multipliers |->
         <<[group |-> "alpha", key |-> "sex_iota",
            grid_spec |-> SmoothingForm("", FALSE, Shared, TRUE)]>>]

\* the mortality rows of the locations in S: one row per location
OmegaRows(S) == {[location_id |-> l, meas_value |-> 10 * l] : l \in S}
OmegaFrames == {None} \cup {Some(OmegaRows(S)) : S \in SUBSET Locations}

\* a 3-d array of draws of shape (n0, n1, 1000); slice (i, j) is told apart by its value
Draws(n0, n1) ==
    [is_ndarray |-> TRUE, shape |-> <<n0, n1, 1000>>,
     data |-> [p \in (0..(n0 - 1)) \X (0..(n1 - 1)) |-> 100 + 10 * p[1] + p[2]]]
\* the same draws flattened to 2 dimensions, and as a nested list
Draws2d(n0, n1) == [Draws(n0, n1) EXCEPT !.shape = <<n0, n1>>]
DrawsList(n0, n1) == [Draws(n0, n1) EXCEPT !.is_ndarray = FALSE]

Present(draws) == [present |-> TRUE, draws |-> draws]
Absent == [present |-> FALSE, draws |-> Draws(0, 0)]

PriorEntry(ages, times, value, dage, dtime) ==
    [ages |-> ages, times |-> times, value |-> value, dage |-> dage, dtime |-> dtime]

\* the entry a fit on the same grid yields: matching axes and draws for all three
GoodEntry(grid) ==
    PriorEntry(grid.ages, grid.times,
               Present(Draws(Len(grid.ages), Len(grid.times))),
               Present(Draws(Len(grid.ages) - 1, Len(grid.times))),
               Present(Draws(Len(grid.ages), Len(grid.times) - 1)))

\* axes that differ from s: other values, or one more point
Shifted(s) == [k \in DOMAIN s |-> s[k] + 1]
Longer(s) == Append(s, s[Len(s)] + 1)

\* the entries of every kind for a grid: axes right or wrong, each draws array
\* absent, right or wrong
PriorEntries(grid) ==
    LET na == Len(grid.ages)
        nt == Len(grid.times)
    IN  {PriorEntry(ages, times, value, dage, dtime) :
            ages \in {grid.ages, Shifted(grid.ages), Longer(grid.ages)},
            times \in {grid.times, Shifted(grid.times)},
            value \in {Absent, Present(Draws(na, nt)), Present(Draws2d(na, nt)),
                       Present(DrawsList(na, nt)), Present(Draws(na + 1, nt)),
                       Present(Draws(na, nt + 1)), Present(Draws(na, nt - 1))},
            dage \in {Absent, Present(Draws(na - 1, nt)), Present(Draws(na, nt))},
            dtime \in {Absent, Present(Draws(na, nt - 1)), Present(Draws(na, nt))}}

Args(parent_location_id, omega_df, update_prior) ==
    [location_dag |-> LocationDag,
     parent_location_id |-> parent_location_id,
     covariate_specs |-> CovariateSpecs,
     weights |-> None,
     omega_df |-> omega_df,
     update_prior |-> update_prior]

NoArgs == Args(1, None, None)

\* the prior updates of the main specification: none, or good entries
PlainUpdates(self) ==
    {None,
     Some(("iota" :> GoodEntry(get_smoothing_grid(self, RateForm("iota"))))
          @@ ("omega" :> GoodEntry(get_smoothing_grid(self, RateForm("omega")))))}

\* the prior updates of every kind: an entry for iota, with or without one for omega
AllUpdates(self) ==
    {None}
    \cup {Some("iota" :> e) : e \in PriorEntries(get_smoothing_grid(self, RateForm("iota")))}
    \cup {Some(("iota" :> e) @@ ("omega" :> o)) :
            e \in {GoodEntry(get_smoothing_grid(self, RateForm("iota")))},
            o \in LET g == get_smoothing_grid(self, RateForm("omega")) IN
                  {GoodEntry(g), PriorEntry(Shifted(g.ages), g.times, Absent, Absent, Absent)}}

(***************************************************************************)
(* The specifications.                                                      *)
(***************************************************************************)
\* one invocation, over every list of random effects and every mortality table
Init ==
    /\ \E rate \in RateLists,
          random_effect \in SeqsUpTo(RandomEffectForms, MaxRandomEffects),
          grid \in {SmallGrid},
          constrain_omega \in BOOLEAN :
            alchemy = Alchemy(Settings(rate, random_effect, grid, constrain_omega))
    /\ \E parent \in {1, 2}, omega_df \in OmegaFrames, update_prior \in PlainUpdates(alchemy) :
            args = [c \in Calls |-> IF c = 1 THEN Args(parent, omega_df, update_prior) ELSE NoArgs]
    /\ frame = [c \in Calls |-> IF c = 1 THEN ReadyFrame ELSE IdleFrame]
    /\ midpoint = IdleMidpoint

\* one invocation, over every kind of prior update
InitPrior ==
    /\ \E grid \in {SmallGrid, BuiltInGrid}, random_effect \in {<<>>, <<SmoothingForm("iota", FALSE, Shared, TRUE)>>} :
            alchemy = Alchemy(Settings(<<RateForm("iota"), RateForm("omega")>>, random_effect, grid, FALSE))
    /\ \E update_prior \in AllUpdates(alchemy) :
            args = [c \in Calls |-> IF c = 1 THEN Args(1, None, update_prior) ELSE NoArgs]
    /\ frame = [c \in Calls |-> IF c = 1 THEN ReadyFrame ELSE IdleFrame]
    /\ midpoint = IdleMidpoint

\* the lists of random effects of the two-invocation specification
FewRandomEffects ==
    {<<>>,
     <<SmoothingForm("omega", FALSE, Shared, TRUE)>>,
     <<SmoothingForm("iota", TRUE, 2, TRUE), SmoothingForm("iota", TRUE, 3, TRUE)>>}

\* two invocations on one Alchemy, their steps interleaved
InitTwo ==
    /\ \E rate \in RateLists, random_effect \in FewRandomEffects, constrain_omega \in BOOLEAN :
            alchemy = Alchemy(Settings(rate, random_effect, SmallGrid, constrain_omega))
    /\ args \in [Calls -> {Args(parent, omega_df, update_prior) :
                              parent \in {1, 2},
                              omega_df \in {None, Some(OmegaRows({1, 2})), Some(OmegaRows(Locations))},
                              update_prior \in PlainUpdates(alchemy)}]
    /\ frame = [c \in Calls |-> ReadyFrame]
    /\ midpoint = IdleMidpoint

\* the inputs of get_midpoint_dict: intervals and grid cells in tenths
ObservedRows == {<<0, 3>>, <<3, 50>>, <<6, 9>>, <<20, 30>>}
GridCells == {<<1, 2, 5>>, <<5, 10, 17>>, <<17, 20, 23>>}

\* observed rows without duplicates, as drop_duplicates leaves them for the caller
ObservedArrays == {o \in SeqsUpTo(ObservedRows, MaxObserved) :
                      \A k \in DOMAIN o, m \in DOMAIN o : o[k] = o[m] => k = m}

\* the cells of an increasing grid, in order
CellLists == {g \in SeqsUpTo(GridCells, MaxObserved) :
                 \A k \in DOMAIN g, m \in DOMAIN g : k < m => g[k][3] <= g[m][1]}

\* the array whose columns are the cells
GridArray(cells) == [r \in 1..3 |-> [k \in DOMAIN cells |-> cells[k][r]]]

InitMidpoint ==
    /\ alchemy = Alchemy(Settings(<<RateForm("iota")>>, <<>>, SmallGrid, FALSE))
    /\ args = [c \in Calls |-> NoArgs]
    /\ frame = [c \in Calls |-> IdleFrame]
    /\ \E observed \in ObservedArrays, cells \in CellLists :
            midpoint = [pc |-> "loop", observed |-> observed, grid_array |-> GridArray(cells),
                        i |-> 0, dictionary |-> <<>>]

\* the default-grid overrides of the settings: unset, or a list of at least one
\* value in any order, values repeated or not
AgeOverrides == {None} \cup {Some(s) : s \in SeqsUpTo({0, 50}, MaxGridPoints) \ {<<>>}}
TimeOverrides == {None} \cup {Some(s) : s \in SeqsUpTo({1990, 2000, 2010}, MaxGridPoints) \ {<<>>}}

\* Alchemy(settings) under construction: self.settings is assigned, the other
\* attributes are not yet there; no invocation has been made
InitGrid ==
    /\ \E age \in AgeOverrides, time \in TimeOverrides :
            alchemy = [settings |->
                          Settings(<<RateForm("iota"), RateForm("omega")>>, <<>>,
                                   [default_age_grid |-> age, default_time_grid |-> time],
                                   FALSE)]
    /\ args = [c \in Calls |-> NoArgs]
    /\ frame = [c \in Calls |-> IdleFrame]
    /\ midpoint = IdleMidpoint

\* __init__: self.age_time_grid = self.construct_age_time_grid()
AgeTimeGridStep ==
    /\ DOMAIN alchemy = {"settings"}
    /\ alchemy' = [settings |-> alchemy.settings,
                   age_time_grid |-> construct_age_time_grid(alchemy.settings)]
    /\ UNCHANGED <<args, frame, midpoint>>

\* __init__: self.single_age_time_grid = self.construct_single_age_time_grid()
SingleAgeTimeGridStep ==
    /\ DOMAIN alchemy = {"settings", "age_time_grid"}
    /\ alchemy' = [settings |-> alchemy.settings,
                   age_time_grid |-> alchemy.age_time_grid,
                   single_age_time_grid |-> construct_single_age_time_grid(alchemy.age_time_grid)]
    /\ UNCHANGED <<args, frame, midpoint>>

\* __init__: self.model = None
ModelStep ==
    /\ DOMAIN alchemy = {"settings", "age_time_grid", "single_age_time_grid"}
    /\ alchemy' = [settings |-> alchemy.settings,
                   age_time_grid |-> alchemy.age_time_grid,
                   single_age_time_grid |-> alchemy.single_age_time_grid,
                   model |-> None]
    /\ UNCHANGED <<args, frame, midpoint>>

\* the caller invokes construct_two_level_model on the constructed object
CallStep ==
    /\ "model" \in DOMAIN alchemy
    /\ frame[1].pc = "idle"
    /\ frame' = [frame EXCEPT ![1] = ReadyFrame]
    /\ UNCHANGED <<alchemy, args, midpoint>>

\* invocation c: the call: children and the empty Model
BeginCall(c) ==
    /\ frame[c].pc = "begin"
    /\ frame' = [frame EXCEPT ![c] = Begin(alchemy, args[c], frame[c])]
    /\ alchemy' = SelfAfter(alchemy, frame'[c])
    /\ UNCHANGED <<args, midpoint>>

\* invocation c: step 1
RatesStep(c) ==
    /\ frame[c].pc = "rates"
    /\ frame' = [frame EXCEPT ![c] = Rates(alchemy, args[c], frame[c])]
    /\ alchemy' = SelfAfter(alchemy, frame'[c])
    /\ UNCHANGED <<args, midpoint>>

\* invocation c: step 2
CovariatesStep(c) ==
    /\ frame[c].pc = "covariates"
    /\ frame' = [frame EXCEPT ![c] = Covariates(alchemy, args[c], frame[c])]
    /\ alchemy' = SelfAfter(alchemy, frame'[c])
    /\ UNCHANGED <<args, midpoint>>

\* invocation c: step 3
RandomEffectsStep(c) ==
    /\ frame[c].pc = "random_effects"
    /\ frame' = [frame EXCEPT ![c] = RandomEffects(alchemy, args[c], frame[c])]
    /\ alchemy' = SelfAfter(alchemy, frame'[c])
    /\ UNCHANGED <<args, midpoint>>

\* invocation c: step 4 and the return
OmegaStep(c) ==
    /\ frame[c].pc = "omega"
    /\ frame' = [frame EXCEPT ![c] = Omega(alchemy, args[c], frame[c])]
    /\ alchemy' = SelfAfter(alchemy, frame'[c])
    /\ UNCHANGED <<args, midpoint>>

\* get_midpoint_dict: one pass of its loop, or its return
MidpointLoop ==
    /\ midpoint.pc = "loop"
    /\ midpoint' = MidpointStep(midpoint)
    /\ UNCHANGED <<alchemy, args, frame>>

NextCall ==
    \E c \in Calls :
        \/ BeginCall(c)
        \/ RatesStep(c)
        \/ CovariatesStep(c)
        \/ RandomEffectsStep(c)
        \/ OmegaStep(c)

Spec == Init /\ [][NextCall]_vars
SpecPrior == InitPrior /\ [][NextCall]_vars
SpecTwo == InitTwo /\ [][NextCall]_vars
SpecMidpoint == InitMidpoint /\ [][MidpointLoop]_vars

\* the construction of an Alchemy, then one invocation on it
NextGrid ==
    \/ AgeTimeGridStep
    \/ SingleAgeTimeGridStep
    \/ ModelStep
    \/ CallStep
    \/ NextCall

SpecGrid == InitGrid /\ [][NextGrid]_vars

(***************************************************************************)
(* Vocabulary of the properties.                                            *)
(***************************************************************************)
AxisErrors == {"AssertionError: prior ages", "AssertionError: prior times"}
DrawsErrors == {"AssertionError: value draws", "AssertionError: dage draws",
                "AssertionError: dtime draws"}
OmegaErrors == {"RuntimeError: need an omega data frame",
                "RuntimeError: no omega values for location"}
CoverageError == "RuntimeError: random effect coverage"

Flag == alchemy.settings.model.constrain_omega
Children(c) == Successors(args[c].location_dag, args[c].parent_location_id)

\* invocation c has left step 1, one way or the other
PastRates(c) == frame[c].pc \notin {"idle", "begin", "rates"}

\* invocation c has run step 3: it passed it, or it failed in it
PassedRandomEffects(c) ==
    \/ frame[c].pc \in {"omega", "returned"}
    \/ frame[c].pc = "raised" /\ frame[c].error.type \in OmegaErrors
FailedRandomEffects(c) == frame[c].pc = "raised" /\ frame[c].error.type = CoverageError

\* the rates with at least one random-effect declaration
RandomEffectRates == {alchemy.settings.random_effect[k].rate : k \in DOMAIN alchemy.settings.random_effect}

\* the set of location keys step 3 produced for a rate
LocationKeys(c, rate) == Range(frame[c].random_effect_by_rate.lists[rate])

\* the location keys of a rate in the Model
ModelKeys(c, rate) ==
    {k[2] : k \in {x \in DOMAIN frame[c].model.val.random_effect : x[1] = rate}}

\* the constraint grid of the parent's mortality rows
ParentConstraint(c) ==
    constraint_from_rectangular_data(
        rectangular_data_to_var(RowsOf(args[c].omega_df.val, args[c].parent_location_id)),
        alchemy.age_time_grid)

HasParentRows(c) ==
    /\ ~args[c].omega_df.is_none
    /\ RowsOf(args[c].omega_df.val, args[c].parent_location_id) # {}

\* the frame of invocation c as step 1 leaves it
AfterStep1(c) == Rates(alchemy, args[c], Begin(alchemy, args[c], ReadyFrame))

HasEntry(c, rate) == ~args[c].update_prior.is_none /\ rate \in DOMAIN args[c].update_prior.val
Entry(c, rate) == args[c].update_prior.val[rate]
Fresh(smooth) == get_smoothing_grid(alchemy, smooth)
DeclaredRates == {alchemy.settings.rate[k] : k \in DOMAIN alchemy.settings.rate}

AxisMismatch(c, smooth) ==
    /\ HasEntry(c, smooth.rate)
    /\ \/ Entry(c, smooth.rate).ages # Fresh(smooth).ages
       \/ Entry(c, smooth.rate).times # Fresh(smooth).times

\* draws that estimate_grid_parameters must refuse for these axes
Unfit(draws, ages, times) ==
    \/ Len(draws.shape) # 3
    \/ draws.shape[1] # Len(ages)
    \/ draws.shape[2] # Len(times)

(***************************************************************************)
(* The properties.                                                          *)
(***************************************************************************)
\* C1: for every rate with a random-effect declaration, the call passes step 3
\* if and only if the set of location keys of that rate is exactly {shared} or
\* exactly the child set; otherwise it fails with the coverage error.
C1_CoverageBySet ==
    \A c \in Calls :
        (PassedRandomEffects(c) \/ FailedRandomEffects(c)) =>
            (PassedRandomEffects(c) <=>
                \A rate \in RandomEffectRates :
                    \/ LocationKeys(c, rate) = {Shared}
                    \/ LocationKeys(c, rate) = Range(Children(c)))

\* C2: in every returned Model, a rate with a random effect keyed by a child has
\* exactly one entry per child and no other entry.
C2_PerChildComplete ==
    \A c \in Calls :
        frame[c].pc = "returned" =>
            \A rate \in {"iota", "omega"} :
                (ModelKeys(c, rate) \cap Range(Children(c)) # {}) =>
                    ModelKeys(c, rate) = Range(Children(c))

\* the case of C3: flag set, parent rows present, a child without rows
C3_Case(c) ==
    /\ Flag
    /\ HasParentRows(c)
    /\ \E child \in Range(Children(c)) : RowsOf(args[c].omega_df.val, child) = {}

\* C3: with the flag set and the parent's rows present but a child's missing,
\* step 4 ends in a returned Model whose omega rate is the parent's constraint
\* grid, a warning is logged, and no child has a constraint grid for omega.
C3_DegradedOmega ==
    \A c \in Calls :
        (C3_Case(c) /\ frame[c].omega_read) =>
            /\ frame[c].pc = "returned"
            /\ frame[c].error = NoError
            /\ frame[c].warned
            /\ frame[c].model.val.rate["omega"] = ParentConstraint(c)
            /\ \A child \in Range(Children(c)) :
                  <<"omega", child>> \in DOMAIN frame[c].model.val.random_effect =>
                      /\ frame[c].model.val.random_effect[<<"omega", child>>].kind # "constraint"
                      /\ child \in LocationKeys(c, "omega")

C3_Witness ==
    \E c \in Calls :
        /\ C3_Case(c)
        /\ frame[c].pc = "returned"
        /\ frame[c].warned
        /\ \E child \in Range(Children(c)) :
              /\ RowsOf(args[c].omega_df.val, child) # {}
              /\ <<"omega", child>> \notin DOMAIN frame[c].model.val.random_effect

\* C4: with the flag set, no Model is returned when the mortality table is
\* missing or holds no parent row, and step 4 raises for exactly that; with the
\* flag off the table is never read and no error is about it.
C4_ParentOmegaRequired ==
    \A c \in Calls :
        /\ (Flag /\ ~HasParentRows(c)) =>
              /\ frame[c].pc # "returned"
              /\ frame[c].omega_read =>
                    (frame[c].pc = "raised" /\ frame[c].error.type \in OmegaErrors)
        /\ ~Flag =>
              /\ ~frame[c].omega_read
              /\ frame[c].error.type \notin OmegaErrors
              /\ ~frame[c].warned

C4_Witness ==
    \E c \in Calls :
        /\ Flag
        /\ frame[c].pc = "raised"
        /\ frame[c].error.type = "RuntimeError: no omega values for location"
        /\ Children(c) # <<>>
        /\ ChildrenWithoutOmega(Children(c), args[c].omega_df.val) = {}

\* C5: when the flag is set and a Model is returned, its omega rate is the
\* parent's constraint grid, whatever step 1 had put there, and every other rate
\* grid is as step 1 left it.
C5_OmegaReplaced ==
    \A c \in Calls :
        (Flag /\ frame[c].pc = "returned") =>
            /\ frame[c].model.val.rate["omega"] = ParentConstraint(c)
            /\ \A rate \in (DOMAIN frame[c].model.val.rate) \ {"omega"} :
                  frame[c].model.val.rate[rate] = AfterStep1(c).model.val.rate[rate]
            /\ DOMAIN frame[c].model.val.rate =
                  {"omega"} \cup {smooth.rate : smooth \in DeclaredRates}

C5_Witness ==
    \E c \in Calls :
        /\ Flag
        /\ frame[c].pc = "returned"
        /\ HasEntry(c, "omega")
        /\ "omega" \in DOMAIN AfterStep1(c).model.val.rate
        /\ AfterStep1(c).model.val.rate["omega"].value # Fresh(RateForm("omega")).value
        /\ frame[c].model.val.rate["omega"].kind = "constraint"

\* C6: a declared rate whose prior-update entry has other ages or times than the
\* fresh grid stops the call in step 1, before any prior of that grid is
\* re-estimated; a rate without an entry is never charged with an axis error.
C6_AxesChecked ==
    \A c \in Calls :
        PastRates(c) =>
            /\ (\E smooth \in DeclaredRates : AxisMismatch(c, smooth)) =>
                  (frame[c].pc = "raised" /\ frame[c].error.type \in AxisErrors \cup DrawsErrors)
            /\ \A smooth \in DeclaredRates :
                  /\ (AxisMismatch(c, smooth) /\ frame[c].error.about = smooth.rate) =>
                        /\ frame[c].error.type \in AxisErrors
                        /\ frame[c].rate_grid = Some(Fresh(smooth))
                  /\ (frame[c].error.type \in AxisErrors /\ frame[c].error.about = smooth.rate) =>
                        AxisMismatch(c, smooth)

C6_Witness ==
    \E c \in Calls :
        /\ frame[c].pc = "raised"
        /\ frame[c].error = Error("AssertionError: prior times", "iota")
        /\ Entry(c, "iota").ages = Fresh(RateForm("iota")).ages
        /\ Entry(c, "iota").value.present
        /\ DrawsFit(Entry(c, "iota").value.draws, Fresh(RateForm("iota")).ages,
                    Fresh(RateForm("iota")).times)

\* the rate that invocation c stopped at in step 1, if its axes agreed
C7_Stopped(c, smooth) ==
    /\ HasEntry(c, smooth.rate)
    /\ ~AxisMismatch(c, smooth)
    /\ frame[c].pc = "raised"
    /\ frame[c].error.about = smooth.rate

\* the rate was reached by step 1 with agreeing axes
C7_Reached(c, smooth) ==
    /\ HasEntry(c, smooth.rate)
    /\ ~AxisMismatch(c, smooth)
    /\ frame[c].error.type \in DrawsErrors => frame[c].error.about = smooth.rate
    /\ frame[c].error.type \notin AxisErrors

\* C7: estimate_grid_parameters fails when the draws are not 3-dimensional or
\* their first two dimensions are not the lengths of ages and times, and then
\* no node of the prior mapping handed to it has been replaced.
C7_ShapeChecked ==
    \A c \in Calls :
        PastRates(c) =>
            \A smooth \in DeclaredRates :
                LET fresh == Fresh(smooth)
                    entry == Entry(c, smooth.rate)
                    grid == frame[c].rate_grid.val
                IN  /\ (C7_Reached(c, smooth) /\ entry.value.present
                        /\ Unfit(entry.value.draws, fresh.ages, fresh.times)) =>
                           /\ frame[c].pc = "raised"
                           /\ frame[c].error.type = "AssertionError: value draws"
                           /\ grid = fresh
                    /\ (C7_Reached(c, smooth) /\ entry.dage.present
                        /\ Unfit(entry.dage.draws, AllButLast(fresh.ages), fresh.times)) =>
                           /\ frame[c].pc = "raised"
                           /\ frame[c].error.type \in {"AssertionError: value draws",
                                                        "AssertionError: dage draws"}
                           /\ grid.dage = fresh.dage
                           /\ grid.dtime = fresh.dtime
                    /\ (C7_Reached(c, smooth) /\ entry.dtime.present
                        /\ Unfit(entry.dtime.draws, fresh.ages, AllButLast(fresh.times))) =>
                           /\ frame[c].pc = "raised"
                           /\ frame[c].error.type \in DrawsErrors
                           /\ grid.dtime = fresh.dtime
                    /\ (C7_Stopped(c, smooth) /\ frame[c].error.type = "AssertionError: value draws") =>
                           grid.value = fresh.value
                    /\ (C7_Stopped(c, smooth) /\ frame[c].error.type = "AssertionError: dage draws") =>
                           grid.dage = fresh.dage
                    /\ (C7_Stopped(c, smooth) /\ frame[c].error.type = "AssertionError: dtime draws") =>
                           grid.dtime = fresh.dtime

C7_Witness ==
    \E c \in Calls :
        LET fresh == Fresh(RateForm("iota")) IN
        /\ frame[c].error = Error("AssertionError: dage draws", "iota")
        /\ Entry(c, "iota").value.present
        /\ frame[c].rate_grid.val.value # fresh.value
        /\ frame[c].rate_grid.val.dage = fresh.dage
        /\ Len(Entry(c, "iota").dage.draws.shape) = 3
        /\ Entry(c, "iota").dage.draws.shape[1] # Len(fresh.ages) - 1

\* C8: two invocations with the same arguments on one Alchemy end the same way:
\* equal Models (keys, axes, priors) or the same failure.
C8_Idempotent ==
    \A c1 \in Calls, c2 \in Calls :
        (args[c1] = args[c2] /\ Finished(frame[c1]) /\ Finished(frame[c2])) =>
            frame[c1] = frame[c2]

C8_Witness ==
    /\ args[1] = args[2]
    /\ frame[1].pc = "returned"
    /\ frame[2].pc = "returned"
    /\ Flag
    /\ HasEntry(1, "iota")
    /\ alchemy.settings.random_effect # <<>>

\* the outcome of invocation c is that of the same call run alone
C9_AsAlone ==
    \A c \in Calls :
        (args[1].parent_location_id # args[2].parent_location_id /\ Finished(frame[c])) =>
            frame[c] = construct_two_level_model(Alchemy(alchemy.settings), args[c])

\* C9: two invocations for different parents, interleaved in any order, each end
\* as when run alone, and no step writes a field of the Alchemy, which never
\* holds a Model.
C9_Interleaved == [](C9_AsAlone /\ alchemy.model = None) /\ [][alchemy' = alchemy]_vars

C9_Witness ==
    /\ args[1].parent_location_id # args[2].parent_location_id
    /\ frame[1].pc = "returned"
    /\ frame[2].pc = "returned"
    /\ frame[1].model # frame[2].model
    /\ Flag

\* column i of the grid overlaps the observed row
Overlaps(row, grid_array, i) == row[2] > grid_array[1][i] /\ row[1] < grid_array[3][i]

\* the input of test_get_midpoint_dict and the answer it expects, in tenths
TestObserved == <<<<0, 3>>, <<3, 50>>>>
TestGrid == GridArray(<<<<1, 2, 5>>, <<5, 10, 17>>>>)
TestAnswer == (<<0, 3>> :> 2) @@ (<<3, 50>> :> 10)

\* C10: get_midpoint_dict returns a dictionary that maps every observed interval
\* overlapping a grid cell to the midpoint of a cell it overlaps; on the input of
\* its test it returns the answer of the test.
C10_MidpointDict ==
    midpoint.pc \in {"returned", "raised"} =>
        /\ midpoint.pc = "returned"
        /\ \A k \in DOMAIN midpoint.observed :
              (\E i \in 1..Shape1(midpoint.grid_array) :
                    Overlaps(midpoint.observed[k], midpoint.grid_array, i)) =>
                  /\ midpoint.observed[k] \in DOMAIN midpoint.dictionary
                  /\ \E i \in 1..Shape1(midpoint.grid_array) :
                        /\ Overlaps(midpoint.observed[k], midpoint.grid_array, i)
                        /\ midpoint.dictionary[midpoint.observed[k]] = midpoint.grid_array[2][i]
        /\ (midpoint.observed = TestObserved /\ midpoint.grid_array = TestGrid) =>
              midpoint.dictionary = TestAnswer

\* s is strictly increasing
StrictlyIncreasing(s) == \A k \in DOMAIN s, m \in DOMAIN s : k < m => s[k] < s[m]

\* C11: the default age-time grid that Alchemy stores, and the axes of every
\* grid resolved on it by an invocation, have at least one point and strictly
\* increasing values on both axes, whatever default-grid overrides are given.
C11_DefaultGridIncreasing ==
    /\ "age_time_grid" \in DOMAIN alchemy =>
            /\ Len(alchemy.age_time_grid.age) >= 1
            /\ Len(alchemy.age_time_grid.time) >= 1
            /\ StrictlyIncreasing(alchemy.age_time_grid.age)
            /\ StrictlyIncreasing(alchemy.age_time_grid.time)
    /\ \A c \in Calls :
            (PastRates(c) /\ frame[c].pc # "raised") =>
                /\ frame[c].model.val.rate["iota"].ages = alchemy.age_time_grid.age
                /\ frame[c].model.val.rate["iota"].times = alchemy.age_time_grid.time
                /\ StrictlyIncreasing(frame[c].model.val.rate["iota"].ages)
                /\ StrictlyIncreasing(frame[c].model.val.rate["iota"].times)

\* the Python index floor(n / 2) of a sequence of n points
MiddleIndex(n) == CHOOSE k \in 0..n : 2 * k <= n /\ n < 2 * k + 2

\* the first default age and the middle default time
FirstAge == alchemy.age_time_grid.age[1]
MiddleTime == alchemy.age_time_grid.time[MiddleIndex(Len(alchemy.age_time_grid.time)) + 1]

\* C15: the single age-time grid is exactly the first default age and exactly
\* the default time at index floor(n/2) of the n default times, and a smoothing
\* that does not depend on age and time (omega) is resolved on that one point.
C15_SingleGrid ==
    /\ "single_age_time_grid" \in DOMAIN alchemy =>
            /\ alchemy.single_age_time_grid.age = <<FirstAge>>
            /\ alchemy.single_age_time_grid.time = <<MiddleTime>>
    /\ \A c \in Calls :
            (PastRates(c) /\ frame[c].pc # "raised") =>
                /\ frame[c].model.val.rate["omega"].ages = <<FirstAge>>
                /\ frame[c].model.val.rate["omega"].times = <<MiddleTime>>
                /\ DOMAIN frame[c].model.val.rate["omega"].value = {<<FirstAge, MiddleTime>>}

\* an invocation returned on a default grid of two distinct times and of ages
\* whose first is not the only one
C15_Witness ==
    /\ "single_age_time_grid" \in DOMAIN alchemy
    /\ Len(alchemy.age_time_grid.time) = 2
    /\ alchemy.age_time_grid.time[1] < alchemy.age_time_grid.time[2]
    /\ Len(alchemy.age_time_grid.age) = 2
    /\ alchemy.age_time_grid.age[1] < alchemy.age_time_grid.age[2]
    /\ frame[1].pc = "returned"
    /\ "omega" \in DOMAIN frame[1].model.val.rate

\* invocation c left step 1 with every rate grid installed
RatesInstalled(c) ==
    /\ PastRates(c)
    /\ ~(frame[c].pc = "raised" /\ frame[c].error.type \in AxisErrors \cup DrawsErrors)

\* the prior mapping after is the mapping before with, when the slot is present,
\* the node at (ages[i], times[j]) refitted to draws[i, j, :] for every index
\* pair of the axes, and with no other node; when absent, after is before
Reestimated(slot, before, after, ages, times) ==
    IF slot.present
    THEN /\ DOMAIN after = {<<ages[i], times[j]>> : i \in DOMAIN ages, j \in DOMAIN times}
         /\ \A i \in DOMAIN ages, j \in DOMAIN times :
                after[<<ages[i], times[j]>>] =
                    [density |-> before[<<ages[i], times[j]>>].density,
                     mean |-> slot.draws.data[<<i - 1, j - 1>>]]
    ELSE after = before

\* C12: after step 1, a rate with a prior-update entry has its value priors
\* refitted over ages x times, its dage priors over ages[:-1] x times and its
\* dtime priors over ages x times[:-1], each if and only if the entry holds the
\* draws, node (ages[i], times[j]) to the slice draws[i, j, :]; the axes are
\* kept, and a rate without an entry keeps its freshly resolved grid.
C12_Reestimated ==
    \A c \in Calls :
        RatesInstalled(c) =>
            \A smooth \in DeclaredRates :
                LET g == frame[c].model.val.rate[smooth.rate]
                    f == Fresh(smooth)
                IN  IF HasEntry(c, smooth.rate)
                    THEN /\ g.ages = f.ages
                         /\ g.times = f.times
                         /\ Reestimated(Entry(c, smooth.rate).value, f.value, g.value,
                                        f.ages, f.times)
                         /\ Reestimated(Entry(c, smooth.rate).dage, f.dage, g.dage,
                                        SubSeq(f.ages, 1, Len(f.ages) - 1), f.times)
                         /\ Reestimated(Entry(c, smooth.rate).dtime, f.dtime, g.dtime,
                                        f.ages, SubSeq(f.times, 1, Len(f.times) - 1))
                    ELSE g = f

\* step 1 refitted all three prior mappings of iota on a grid of several ages
\* and times, and left omega, which has no entry, alone
C12_Witness ==
    \E c \in Calls :
        /\ RatesInstalled(c)
        /\ HasEntry(c, "iota")
        /\ ~HasEntry(c, "omega")
        /\ Entry(c, "iota").value.present
        /\ Entry(c, "iota").dage.present
        /\ Entry(c, "iota").dtime.present
        /\ Len(frame[c].model.val.rate["iota"].ages) > 2
        /\ Len(frame[c].model.val.rate["iota"].times) > 1
        /\ \A key \in DOMAIN frame[c].model.val.rate["iota"].value :
              frame[c].model.val.rate["iota"].value[key].mean >= 100

\* the key the declaration smooth is to get in invocation c: its location when
\* set and among the children of the parent, else shared
DeclaredKey(c, smooth) ==
    IF smooth.has_location /\ (\E k \in DOMAIN Children(c) : Children(c)[k] = smooth.location)
    THEN smooth.location
    ELSE Shared

\* the keys of the declarations of a rate, in the order of the declarations
DeclaredKeys(c, rate) ==
    LET of_rate == SelectSeq(alchemy.settings.random_effect, LAMBDA smooth : smooth.rate = rate)
    IN  [k \in DOMAIN of_rate |-> DeclaredKey(c, of_rate[k])]

\* C13: when step 3 has run, every declared random-effect smoothing has its grid
\* in model.random_effect under (rate, location) if its location is set and a
\* child of the parent, and under (rate, shared) otherwise; nothing else is in
\* model.random_effect; and the keys recorded for the coverage check are, rate by
\* rate and in order, the keys under which the grids were stored.
C13_Keyed ==
    \A c \in Calls :
        (frame[c].pc = "omega" \/ FailedRandomEffects(c)) =>
            LET re == alchemy.settings.random_effect
                stored == frame[c].model.val.random_effect
            IN  /\ \A k \in DOMAIN re :
                      /\ <<re[k].rate, DeclaredKey(c, re[k])>> \in DOMAIN stored
                      /\ stored[<<re[k].rate, DeclaredKey(c, re[k])>>] =
                             smooth_grid_from_smoothing_form(alchemy.age_time_grid,
                                 alchemy.single_age_time_grid, re[k])
                /\ DOMAIN stored = {<<re[k].rate, DeclaredKey(c, re[k])>> : k \in DOMAIN re}
                /\ DOMAIN frame[c].random_effect_by_rate.lists = RandomEffectRates
                /\ \A rate \in RandomEffectRates :
                      frame[c].random_effect_by_rate.lists[rate] = DeclaredKeys(c, rate)

\* step 3 has run on a declaration whose location is set but is not a child of
\* the parent: its grid is under the shared key, and so is its recorded key
C13_Witness ==
    \E c \in Calls, k \in DOMAIN alchemy.settings.random_effect :
        /\ frame[c].pc = "omega" \/ FailedRandomEffects(c)
        /\ alchemy.settings.random_effect[k].has_location
        /\ alchemy.settings.random_effect[k].location \notin Range(Children(c))
        /\ <<alchemy.settings.random_effect[k].rate, Shared>>
               \in DOMAIN frame[c].model.val.random_effect
        /\ Shared \in Range(frame[c].random_effect_by_rate.lists[alchemy.settings.random_effect[k].rate])

\* the mortality value of a location in the table of invocation c
MeasValue(c, location) ==
    (CHOOSE r \in args[c].omega_df.val : r.location_id = location).meas_value

\* the case of C14: flag set, parent rows present, rows for every child
C14_Case(c) ==
    /\ Flag
    /\ HasParentRows(c)
    /\ \A child \in Range(Children(c)) : RowsOf(args[c].omega_df.val, child) # {}

\* C14: with the flag set, the parent's rows present and rows for every child,
\* the returned Model holds for every child an entry ("omega", child) that is a
\* constraint grid on the default grid whose value at every node is the log of
\* that child's own rate over the parent's rate.
C14_ChildOmega ==
    \A c \in Calls :
        (C14_Case(c) /\ frame[c].pc = "returned") =>
            \A child \in Range(Children(c)) :
                /\ <<"omega", child>> \in DOMAIN frame[c].model.val.random_effect
                /\ LET grid == frame[c].model.val.random_effect[<<"omega", child>>] IN
                    /\ grid.kind = "constraint"
                    /\ grid.ages = alchemy.age_time_grid.age
                    /\ grid.times = alchemy.age_time_grid.time
                    /\ DOMAIN grid.value =
                           Range(alchemy.age_time_grid.age) \X Range(alchemy.age_time_grid.time)
                    /\ \A n \in DOMAIN grid.value :
                          grid.value[n] = [fn |-> "log", num |-> MeasValue(c, child),
                                           den |-> MeasValue(c, args[c].parent_location_id)]

\* a Model returned with the constraints of two children whose rates differ
C14_Witness ==
    \E c \in Calls :
        /\ C14_Case(c)
        /\ frame[c].pc = "returned"
        /\ Len(Children(c)) = 2
        /\ MeasValue(c, Children(c)[1]) # MeasValue(c, Children(c)[2])
        /\ <<"omega", Children(c)[1]>> \in DOMAIN frame[c].model.val.random_effect
        /\ <<"omega", Children(c)[2]>> \in DOMAIN frame[c].model.val.random_effect

====
